---- MODULE Spec2Model ----
(***************************************************************************)
(* A model of the brightness publisher (brightness.py) and of its          *)
(* health-check (healthcheck.py).                                          *)
(*                                                                         *)
(* Spec       : the publisher: its main thread (main, publish_data), the   *)
(*              broker client's network thread (on_connect, on_disconnect) *)
(*              and signal delivery (handler).                             *)
(* SpecHealth : one run of the health-check over a heartbeat file, a clock *)
(*              and an environment drawn from bounded sets.                *)
(*                                                                         *)
(* Time is counted in ticks of 0.2 s, the period of the start-up poll      *)
(* (time.sleep(0.2)); time.time() is the tick count.  Only the two sleeps  *)
(* let time pass.                                                          *)
(***************************************************************************)
EXTENDS Integers, Sequences, FiniteSets, TLC

\* ------------------------------------------------------------ constants

\* One second is five ticks: time.sleep(0.2) is one tick.
TicksPerSecond == 5

Secs(s) == s * TicksPerSecond

\* Environment defaults of brightness.py.
LATITUDE == 0

LONGITUDE == 0

ALTITUDE == 0

TZ == "UTC"

PUBLISH_INTERVAL_S == 60

GPSD_REFRESH_S == 900

BASE_TOPIC == "brightness"

AVAILABILITY_TOPIC == "brightness/availability"

DISCOVERY_TOPIC == "homeassistant/sensor/brightness/brightness/config"

\* The bound of the wait for the first connection (main, line 270).
CONNECT_WAIT_S == 30

\* The signal the handler is installed for, and its number.
SIGINT == 2

\* Defaults of healthcheck.py.
HEALTH_MAX_AGE_SECONDS == 180

\* ---------------------------------------------------------------- bounds

\* time.time() when the process starts, in seconds (any epoch time exceeds
\* the health-check's maximum age).
StartTime == 1000

\* Main-loop iterations explored (a refresh needs GPSD_REFRESH_S /
\* PUBLISH_INTERVAL_S = 15 sleeps).
MaxCycles == 17

\* Successful connects explored.
MaxConnects == 2

\* During the start-up wait the first CONNACK arrives within this many
\* polls, or not before the wait has timed out.
MaxStartupConnectPolls == 1

\* Publisher ticks over which the health-check's clock and heartbeat range.
MaxHealthTicks == 5

\* The longest gpsd stream given to the resolver on its own.
MaxLines == 3

\* ----------------------------------------------------------------- values

None == "None"

NoFix == <<>>

\* No Location built yet (before line 273).
NoLoc == [latitude |-> 0, longitude |-> 0, tz |-> "", altitude |-> 0, name |-> "unset"]

\* publish_data is not running.
NoSample ==
    [cycle |-> 0, ts |-> 0, tz |-> "", lat |-> 0, lon |-> 0, alt |-> 0,
     turbidityLat |-> 0, turbidityLon |-> 0, clearskyAlt |-> 0]

\* The process is running.
NoExit == [how |-> "running", code |-> 0]

\* ------------------------------------------------- gpsd: get_fix_from_gpsd

\* A line of the gpsd stream: blank, not JSON, or a JSON object with the
\* fields the resolver reads.  A field is <<v>> when the key holds v and
\* Absent when the key is missing or null.
Absent == <<>>

VersionLine == [kind |-> "object", class |-> "VERSION", mode |-> Absent, lat |-> Absent, lon |-> Absent, alt |-> Absent]

BlankLine == [kind |-> "blank", class |-> "", mode |-> Absent, lat |-> Absent, lon |-> Absent, alt |-> Absent]

BadJsonLine == [kind |-> "badjson", class |-> "", mode |-> Absent, lat |-> Absent, lon |-> Absent, alt |-> Absent]

\* A line that is valid JSON but not an object, such as [1]: json.loads
\* returns a list, which has no get (line 94).
NonObjectLine == [kind |-> "nonobject", class |-> "", mode |-> Absent, lat |-> Absent, lon |-> Absent, alt |-> Absent]

Tpv(mode, la, lo, al) == [kind |-> "object", class |-> "TPV", mode |-> mode, lat |-> la, lon |-> lo, alt |-> al]

\* What one gpsd session delivers before the deadline: whether the TCP
\* connection is made, and the lines received.
GpsdSessions ==
    { [conn |-> FALSE, lines |-> <<>>],
      [conn |-> TRUE, lines |-> <<VersionLine, Tpv(<<1>>, Absent, Absent, Absent)>>],
      [conn |-> TRUE, lines |-> <<VersionLine, BlankLine, Tpv(<<3>>, <<40>>, <<-74>>, <<10>>)>>],
      [conn |-> TRUE, lines |-> <<BadJsonLine, Tpv(<<1>>, <<40>>, <<-74>>, Absent), Tpv(<<2>>, <<0>>, <<-30>>, <<7>>)>>],
      [conn |-> TRUE, lines |-> <<NonObjectLine, Tpv(<<3>>, <<40>>, <<-74>>, <<10>>)>>] }

\* An exception leaving the code that was called.
Raised == <<"raised">>

\* int(msg.get("mode") or 0)
ModeOf(msg) == IF msg.mode = Absent THEN 0 ELSE msg.mode[1]

\* The test of line 102.
IsFix(msg) == ModeOf(msg) >= 2 /\ msg.lat # Absent /\ msg.lon # Absent

\* Lines 103-104.
FixOf(msg) ==
    <<msg.lat[1], msg.lon[1], IF msg.alt # Absent /\ ModeOf(msg) >= 3 THEN msg.alt[1] ELSE 0>>

\* The inner loop over the received lines (lines 84-104).
RECURSIVE ScanLines(_)
ScanLines(lines) ==
    IF lines = <<>> THEN NoFix
    ELSE LET msg == Head(lines)
         IN  IF msg.kind \in {"blank", "badjson"} THEN ScanLines(Tail(lines))
             ELSE IF msg.kind = "nonobject" THEN Raised
             ELSE IF msg.class # "TPV" THEN ScanLines(Tail(lines))
             ELSE IF IsFix(msg) THEN FixOf(msg)
             ELSE ScanLines(Tail(lines))

\* Lines 72-80: create_connection raises when the connection fails; the
\* lines are scanned until the peer closes, the deadline passes or a
\* fix is returned.
Receive(session) ==
    IF ~session.conn THEN Raised ELSE ScanLines(session.lines)

get_fix_from_gpsd_NoCatch(host, session) ==
    IF host = "" THEN NoFix ELSE Receive(session)

\* The except clause of lines 109-110 turns every exception into the
\* return of line 112.
get_fix_from_gpsd(host, session) ==
    IF host = "" THEN NoFix
    ELSE IF Receive(session) = Raised THEN NoFix
    ELSE Receive(session)

\* ------------------------------------------------ timezone: lookup_timezone

\* _tz_finder.timezone_at for the coordinates the sessions deliver: no
\* zone is found for the mid-ocean position.
timezone_at(la, lo) ==
    IF la = 40 /\ lo = -74 THEN "America/New_York" ELSE None

lookup_timezone(finder, la, lo) ==
    IF ~finder THEN None ELSE timezone_at(la, lo)

\* ----------------------------------------------------------------- state

VARIABLES
    MQTT_HOST,        \* environment: broker host ("" when not configured)
    GPSD_HOST,        \* environment: gpsd host ("" when not configured)
    _tz_finder,       \* whether timezonefinder could be imported
    gpsdLines,        \* the lines gpsd delivers before the deadline
    pc,               \* where the main thread is
    now,              \* time.time(), in ticks
    start,            \* main: start of the wait for the first connection
    cycle,            \* number of the main-loop iteration (0 before the loop)
    lat, lon, alt, tz, \* main: the active coordinates and timezone
    loc,              \* main: the Location handed to publish_data
    fix,              \* main: the last result of get_fix_from_gpsd
    last_gpsd_check,  \* main: time of the last resolver call
    _connected,       \* the connection flag
    net,              \* the broker client's network thread
    checked,          \* what line 293 read in this iteration
    sample,           \* publish_data: the sample being computed and sent
    dataSent,         \* irradiance messages handed to the client in this iteration
    lastPub,          \* the messages handed to the client by the last publishing step
    nConnOk,          \* on_connect calls with rc == 0
    nOnline,          \* "online" messages handed to the client
    nDiscovery,       \* discovery descriptors handed to the client
    nOffline,         \* "offline" messages handed to the client
    gpsdCalls,        \* calls of get_fix_from_gpsd
    hb,               \* the heartbeat file
    diag,             \* the last error-level log line
    exit,             \* how the process ended
    sig,              \* the signal delivered
    hcEnv,            \* health-check: its environment
    hc                \* health-check: its outcome

vars ==
    <<MQTT_HOST, GPSD_HOST, _tz_finder, gpsdLines, pc, now, start, cycle, lat, lon, alt, tz,
      loc, fix, last_gpsd_check, _connected, net, checked, sample, dataSent,
      lastPub, nConnOk, nOnline, nDiscovery, nOffline, gpsdCalls, hb, diag, exit,
      sig, hcEnv, hc>>

envVars == <<MQTT_HOST, GPSD_HOST, _tz_finder, gpsdLines>>

locVars == <<lat, lon, alt, tz, loc, fix, last_gpsd_check>>

pubVars == <<lastPub, nConnOk, nOnline, nDiscovery, nOffline>>

hcVars == <<hcEnv, hc>>

\* ------------------------------------------------------------- messages

Msg(topic, payload, retain) == [topic |-> topic, payload |-> payload, retain |-> retain]

OnlineMsg == Msg(AVAILABILITY_TOPIC, "online", TRUE)

OfflineMsg == Msg(AVAILABILITY_TOPIC, "offline", TRUE)

DiscoveryMsg == Msg(DISCOVERY_TOPIC, "discovery", TRUE)

DataMsg == Msg(BASE_TOPIC, "sample", FALSE)

Count(msgs, m) == Cardinality({i \in DOMAIN msgs : msgs[i] = m})

\* ------------------------------------------------------- heartbeat file

HbMissing == [exists |-> FALSE, kind |-> "none", val |-> 0]

HbText(kind, v) == [exists |-> TRUE, kind |-> kind, val |-> v]

\* str(time.time()): the decimal text of the time.
StrOfTime(t) == HbText("num", t)

\* ------------------------------------------------------------------ Init

\* The health-check has not run.
NoHealth == [ran |-> FALSE, exit |-> 0, stderr |-> <<>>, probed |-> FALSE, established |-> FALSE]

NoHealthEnv == [tcp |-> "", host |-> ""]

\* The publisher's process before main() runs (module level, lines 22-61).
InitProcess ==
    /\ pc = "start"
    /\ start = 0
    /\ cycle = 0
    /\ lat = LATITUDE /\ lon = LONGITUDE /\ alt = ALTITUDE /\ tz = TZ
    /\ loc = NoLoc
    /\ fix = NoFix
    /\ last_gpsd_check = 0
    /\ _connected = FALSE
    /\ net = "idle"
    /\ checked = "none"
    /\ sample = NoSample
    /\ dataSent = 0
    /\ lastPub = <<>>
    /\ nConnOk = 0 /\ nOnline = 0 /\ nDiscovery = 0 /\ nOffline = 0
    /\ gpsdCalls = 0
    /\ diag = ""
    /\ exit = NoExit
    /\ sig = "none"

Init ==
    /\ MQTT_HOST \in {"", "broker"}
    /\ GPSD_HOST \in {"", "gpsd"}
    /\ _tz_finder \in BOOLEAN
    /\ gpsdLines = <<>>
    /\ InitProcess
    /\ now = Secs(StartTime)
    /\ hb = HbMissing
    /\ hcEnv = NoHealthEnv
    /\ hc = NoHealth

\* -------------------------------------------------- handing to the client

\* CLIENT.publish(...) for each of msgs, in order.
Publish(msgs) ==
    /\ lastPub' = IF msgs = <<>> THEN lastPub ELSE msgs
    /\ nOnline' = nOnline + Count(msgs, OnlineMsg)
    /\ nDiscovery' = nDiscovery + Count(msgs, DiscoveryMsg)
    /\ nOffline' = nOffline + Count(msgs, OfflineMsg)

\* The process ends: SystemExit(code), or death by a signal.
Terminate(how, code, thread) ==
    /\ pc' = "exited"
    /\ exit' = [how |-> how, code |-> code]
    /\ net' = thread

Alive == pc # "exited"

\* ------------------------------------------------------------ main: start

\* A main() that does not stop on an empty broker host.
HostMissing_Never(host) == FALSE

\* Line 244.
HostMissing(host) == host = ""

\* Lines 230-246: the locals, the client's settings, the broker host.
main_start ==
    /\ pc = "start"
    /\ lat' = LATITUDE /\ lon' = LONGITUDE /\ alt' = ALTITUDE /\ tz' = TZ
    /\ IF HostMissing(MQTT_HOST)
       THEN /\ diag' = "MQTT_HOST is empty"
            /\ Terminate("exit", 2, net)
       ELSE /\ pc' = "gpsd_init"
            /\ UNCHANGED <<diag, exit, net>>
    /\ UNCHANGED <<envVars, now, start, cycle, loc, fix, last_gpsd_check, _connected,
                   checked, sample, dataSent, pubVars, gpsdCalls, hb, sig, hcVars>>

\* Lines 255-257 and 283-285: the timezone after a fix.
TzAfterFix(finder, cur, f) ==
    LET gps_tz == lookup_timezone(finder, f[1], f[2])
    IN  IF gps_tz # None THEN gps_tz ELSE cur

\* location.Location(lat, lon, tz, alt, name)
Location(la, lo, z, al, name) ==
    [latitude |-> la, longitude |-> lo, tz |-> z, altitude |-> al, name |-> name]

\* Lines 249-263: the initial fix, when gpsd is configured.
main_initial_fix ==
    /\ pc = "gpsd_init"
    /\ IF GPSD_HOST # ""
       THEN \E session \in GpsdSessions :
              LET f == get_fix_from_gpsd(GPSD_HOST, session)
              IN  /\ fix' = f
                  /\ gpsdCalls' = gpsdCalls + 1
                  /\ IF f = Raised
                     THEN /\ diag' = "fatal error"
                          /\ Terminate("exit", 1, "dead")
                          /\ UNCHANGED <<lat, lon, alt, tz, last_gpsd_check>>
                     ELSE /\ IF f # NoFix
                             THEN /\ lat' = f[1] /\ lon' = f[2] /\ alt' = f[3]
                                  /\ tz' = TzAfterFix(_tz_finder, tz, f)
                             ELSE UNCHANGED <<lat, lon, alt, tz>>
                          /\ last_gpsd_check' = now
                          /\ pc' = "connect"
                          /\ UNCHANGED <<diag, exit, net>>
       ELSE /\ last_gpsd_check' = 0
            /\ pc' = "connect"
            /\ UNCHANGED <<fix, gpsdCalls, lat, lon, alt, tz, diag, exit, net>>
    /\ UNCHANGED <<envVars, now, start, cycle, loc, _connected, checked, sample,
                   dataSent, pubVars, hb, sig, hcVars>>

\* Lines 265-269: connect_async, loop_start, the start of the wait.
main_connect ==
    /\ pc = "connect"
    /\ net' = "connecting"
    /\ start' = now
    /\ pc' = "wait"
    /\ UNCHANGED <<envVars, now, cycle, locVars, _connected, checked, sample, dataSent,
                   pubVars, gpsdCalls, hb, diag, exit, sig, hcVars>>

\* A wait with no timeout.
StillWaiting_NoTimeout(conn, t, t0) == ~conn

\* The condition of the wait loop (line 270).
StillWaiting(conn, t, t0) == ~conn /\ t - t0 < Secs(CONNECT_WAIT_S)

\* Lines 270-271: one poll of the wait for the first connection.
main_wait ==
    /\ pc = "wait"
    /\ StillWaiting(_connected, now, start)
    /\ now' = now + 1
    /\ UNCHANGED <<envVars, pc, start, cycle, locVars, _connected, net, checked, sample,
                   dataSent, pubVars, gpsdCalls, hb, diag, exit, sig, hcVars>>

\* Lines 270, 273-276: the wait is over; the Location is built.
main_enter_loop ==
    /\ pc = "wait"
    /\ ~StillWaiting(_connected, now, start)
    /\ loc' = Location(lat, lon, tz, alt, "Home")
    /\ cycle' = 1
    /\ pc' = "refresh"
    /\ UNCHANGED <<envVars, now, start, lat, lon, alt, tz, fix, last_gpsd_check,
                   _connected, net, checked, sample, dataSent, pubVars, gpsdCalls, hb,
                   diag, exit, sig, hcVars>>

\* ------------------------------------------------------- main: the loop

\* A refresh test that forgets to ask whether gpsd is configured.
RefreshDue_AnyHost(host, t, last) == t - last >= Secs(GPSD_REFRESH_S)

\* A refresh attempted in every iteration.
RefreshDue_EveryCycle(host, t, last) == host # ""

\* Line 278.
RefreshDue(host, t, last) == host # "" /\ t - last >= Secs(GPSD_REFRESH_S)

\* Lines 278-291: the periodic refresh of the gpsd coordinates.
main_refresh ==
    /\ pc = "refresh"
    /\ IF RefreshDue(GPSD_HOST, now, last_gpsd_check)
       THEN \E session \in GpsdSessions :
              LET f == get_fix_from_gpsd(GPSD_HOST, session)
                  z == TzAfterFix(_tz_finder, tz, f)
              IN  /\ fix' = f
                  /\ gpsdCalls' = gpsdCalls + 1
                  /\ IF f = Raised
                     THEN /\ diag' = "fatal error"
                          /\ Terminate("exit", 1, "dead")
                          /\ UNCHANGED <<lat, lon, alt, tz, loc, last_gpsd_check>>
                     ELSE /\ last_gpsd_check' = now
                          /\ IF f # NoFix
                             THEN /\ lat' = f[1] /\ lon' = f[2] /\ alt' = f[3]
                                  /\ tz' = z
                                  /\ loc' = Location(f[1], f[2], z, f[3], "")
                             ELSE UNCHANGED <<lat, lon, alt, tz, loc>>
                          /\ pc' = "check"
                          /\ UNCHANGED <<diag, exit, net>>
       ELSE /\ pc' = "check"
            /\ UNCHANGED <<locVars, gpsdCalls, diag, exit, net>>
    /\ UNCHANGED <<envVars, now, start, cycle, _connected, checked, sample,
                   dataSent, pubVars, hb, sig, hcVars>>

\* A loop that publishes whatever the flag says.
AfterCheck_Always(conn) == "compute"

\* Lines 293-296: publish when connected, else log and skip.
AfterCheck(conn) == IF conn THEN "compute" ELSE "sleep"

\* A loop that refreshes the heartbeat in the iterations it skips.
main_check_TouchesHeartbeat ==
    /\ pc = "check"
    /\ checked' = IF _connected THEN "connected" ELSE "disconnected"
    /\ pc' = AfterCheck(_connected)
    /\ hb' = IF _connected THEN hb ELSE HbText("num", now)
    /\ UNCHANGED <<envVars, now, start, cycle, locVars, _connected, net, sample,
                   dataSent, pubVars, gpsdCalls, diag, exit, sig, hcVars>>

\* Lines 293-296: the flag is read and the branch taken.
main_check ==
    /\ pc = "check"
    /\ checked' = IF _connected THEN "connected" ELSE "disconnected"
    /\ pc' = AfterCheck(_connected)
    /\ UNCHANGED <<envVars, now, start, cycle, locVars, _connected, net, sample,
                   dataSent, pubVars, gpsdCalls, hb, diag, exit, sig, hcVars>>

\* Lines 188-213: what the sample is computed from.  The solar position
\* comes from loc; the turbidity lookup and the clear-sky model read the
\* module's LATITUDE, LONGITUDE and ALTITUDE.
Sample(l, z, t, c) ==
    [cycle |-> c, ts |-> t, tz |-> z,
     lat |-> l.latitude, lon |-> l.longitude, alt |-> l.altitude,
     turbidityLat |-> LATITUDE, turbidityLon |-> LONGITUDE, clearskyAlt |-> ALTITUDE]

\* Lines 188-220: the computation of the sample; pvlib or pandas may raise,
\* which ends the process through __main__ (lines 305-307).
publish_data_compute ==
    /\ pc = "compute"
    /\ \E ok \in BOOLEAN :
         IF ok
         THEN /\ sample' = Sample(loc, tz, now, cycle)
              /\ pc' = "publish"
              /\ UNCHANGED <<diag, exit, net>>
         ELSE /\ diag' = "fatal error"
              /\ Terminate("exit", 1, "dead")
              /\ UNCHANGED sample
    /\ UNCHANGED <<envVars, now, start, cycle, locVars, _connected, checked, dataSent,
                   pubVars, gpsdCalls, hb, sig, hcVars>>

\* Line 222: the sample is handed to the client.
publish_data_publish ==
    /\ pc = "publish"
    /\ Publish(<<DataMsg>>)
    /\ dataSent' = dataSent + 1
    /\ pc' = "heartbeat"
    /\ UNCHANGED <<envVars, now, start, cycle, locVars, _connected, net, checked,
                   sample, nConnOk, gpsdCalls, hb, diag, exit, sig, hcVars>>

\* A heartbeat that records the time the process started.
HeartbeatText_StartTime(t) == StrOfTime(Secs(StartTime))

\* Line 225: what is written to the heartbeat file.
HeartbeatText(t) == StrOfTime(t)

\* Line 225, and the return of publish_data.
publish_data_heartbeat ==
    /\ pc = "heartbeat"
    /\ hb' = HeartbeatText(now)
    /\ sample' = NoSample
    /\ pc' = "sleep"
    /\ UNCHANGED <<envVars, now, start, cycle, locVars, _connected, net, checked,
                   dataSent, pubVars, gpsdCalls, diag, exit, sig, hcVars>>

\* Line 298: the sleep until the next tick; the next iteration begins.
main_sleep ==
    /\ pc = "sleep"
    /\ cycle < MaxCycles
    /\ now' = now + Secs(PUBLISH_INTERVAL_S)
    /\ cycle' = cycle + 1
    /\ checked' = "none"
    /\ dataSent' = 0
    /\ pc' = "refresh"
    /\ UNCHANGED <<envVars, start, locVars, _connected, net, sample, pubVars,
                   gpsdCalls, hb, diag, exit, sig, hcVars>>

\* ------------------------------------------- network thread: the callbacks

\* An on_connect that announces itself whatever the result code.
OnConnectMsgs_AnyRc(rc) == <<OnlineMsg, DiscoveryMsg>>

\* Lines 152-176: what on_connect publishes.
OnConnectMsgs(rc) == IF rc = 0 THEN <<OnlineMsg, DiscoveryMsg>> ELSE <<>>

\* A callback that takes every CONNACK for a success.
FlagAfterConnect_AnyRc(rc, flag) == TRUE

\* Lines 147-148: the flag after on_connect.
FlagAfterConnect(rc, flag) == IF rc = 0 THEN TRUE ELSE flag

\* on_connect(client, userdata, flags, rc): the network thread got a CONNACK.
on_connect ==
    /\ Alive
    /\ net = "connecting"
    /\ \E rc \in {0, 5} :
         /\ rc = 0 => /\ nConnOk < MaxConnects
                      /\ pc = "wait" => now - start <= MaxStartupConnectPolls
         /\ _connected' = FlagAfterConnect(rc, _connected)
         /\ Publish(OnConnectMsgs(rc))
         /\ nConnOk' = IF rc = 0 THEN nConnOk + 1 ELSE nConnOk
         /\ net' = IF rc = 0 THEN "up" ELSE "refused"
    /\ UNCHANGED <<envVars, pc, now, start, cycle, locVars, checked, sample, dataSent,
                   gpsdCalls, hb, diag, exit, sig, hcVars>>

\* A callback that announces the loss of the connection itself.
OnDisconnectMsgs_Offline == <<OfflineMsg>>

\* Lines 181-184: what on_disconnect hands to the client: nothing.
OnDisconnectMsgs == <<>>

\* on_disconnect(client, userdata, rc): the connection is gone (or the
\* broker refused it); the client will reconnect.
on_disconnect ==
    /\ Alive
    /\ net \in {"up", "refused"}
    /\ _connected' = FALSE
    /\ Publish(OnDisconnectMsgs)
    /\ net' = "connecting"
    /\ UNCHANGED <<envVars, pc, now, start, cycle, locVars, checked, sample, dataSent,
                   nConnOk, gpsdCalls, hb, diag, exit, sig, hcVars>>

\* ------------------------------------------------------------- signals

\* Lines 131-139: handler(signum, frame), installed for SIGINT (line 142).
\* The publish of "offline" may raise, which is ignored.
handler ==
    /\ Alive
    /\ \E ok \in BOOLEAN : Publish(IF ok THEN <<OfflineMsg>> ELSE <<>>)
    /\ sig' = "SIGINT"
    /\ Terminate("exit", SIGINT, "stopped")
    /\ UNCHANGED <<envVars, now, start, cycle, locVars, _connected, checked, sample,
                   dataSent, nConnOk, gpsdCalls, hb, diag, hcVars>>

\* No handler is installed for SIGTERM (line 142 names SIGINT only): the
\* default disposition kills the process at once.
sigterm_default ==
    /\ Alive
    /\ sig' = "SIGTERM"
    /\ Terminate("killed", 0, "dead")
    /\ UNCHANGED <<envVars, now, start, cycle, locVars, _connected, checked, sample,
                   dataSent, pubVars, gpsdCalls, hb, diag, hcVars>>

\* ------------------------------------------------------- specification

Next ==
    \/ main_start
    \/ main_initial_fix
    \/ main_connect
    \/ main_wait
    \/ main_enter_loop
    \/ main_refresh
    \/ main_check
    \/ publish_data_compute
    \/ publish_data_publish
    \/ publish_data_heartbeat
    \/ main_sleep
    \/ on_connect
    \/ on_disconnect
    \/ handler
    \/ sigterm_default

Spec == Init /\ [][Next]_vars

\* ------------------------------------------------ healthcheck.py: main

\* float((hb_path.read_text() or "").strip() or "0") succeeds: the file can
\* be read and its text is empty, blank, or the text of a number.
Parsable(file) == file.kind \in {"empty", "blank", "num"}

\* The value float(...) returns (line 21).
HeartbeatValue(file) == IF file.kind = "num" THEN file.val ELSE 0

\* A health-check that never finds the heartbeat stale.
Stale_Never(t, last) == FALSE

\* Lines 26-28: age > max_age.
Stale(t, last) == t - last > Secs(HEALTH_MAX_AGE_SECONDS)

\* Lines 33-36: the probe is made when the toggle is "1" and a host is set.
ProbeWanted(env) == env.tcp = "1" /\ env.host # ""

\* A probe whose failure is swallowed.
ProbeFailed_Ignored(reachable) == FALSE

\* Lines 37-41: socket.create_connection raised.
ProbeFailed(reachable) == ~reachable

\* fail(msg): one line on stderr, exit status 1 (lines 9-11).
fail(msg, probed) ==
    [ran |-> TRUE, exit |-> 1, stderr |-> <<msg>>, probed |-> probed, established |-> FALSE]

\* Lines 14-43.
healthcheck_main(file, t, env, reachable) ==
    IF ~file.exists THEN fail("no heartbeat file", FALSE)
    ELSE IF ~Parsable(file) THEN fail("bad heartbeat", FALSE)
    ELSE IF Stale(t, HeartbeatValue(file)) THEN fail("stale heartbeat", FALSE)
    ELSE IF ProbeWanted(env)
         THEN IF ProbeFailed(reachable)
              THEN fail("mqtt tcp unreachable", TRUE)
              ELSE [ran |-> TRUE, exit |-> 0, stderr |-> <<>>, probed |-> TRUE,
                    established |-> reachable]
         ELSE [ran |-> TRUE, exit |-> 0, stderr |-> <<>>, probed |-> FALSE,
               established |-> FALSE]

\* Heartbeat files the health-check may find: none, an empty or blank one,
\* one whose text is no number, one that cannot be read, or one the
\* publisher wrote at one of its ticks.
HealthTimes == {Secs(StartTime) + k * Secs(PUBLISH_INTERVAL_S) : k \in 0..MaxHealthTicks}

HeartbeatFiles ==
    {HbMissing, HbText("empty", 0), HbText("blank", 0), HbText("garbage", 0),
     HbText("unreadable", 0)}
        \cup {HeartbeatText(t) : t \in HealthTimes}

HealthInit ==
    /\ MQTT_HOST = "broker" /\ GPSD_HOST = "" /\ _tz_finder = FALSE
    /\ gpsdLines = <<>>
    /\ InitProcess
    /\ now \in HealthTimes
    /\ hb \in HeartbeatFiles
    /\ hcEnv \in [tcp : {"0", "1"}, host : {"", "broker"}]
    /\ hc = NoHealth

\* One run of the health-check; the broker is reachable or not.
health_main ==
    /\ ~hc.ran
    /\ \E reachable \in BOOLEAN : hc' = healthcheck_main(hb, now, hcEnv, reachable)
    /\ UNCHANGED <<envVars, pc, now, start, cycle, locVars, _connected, net, checked,
                   sample, dataSent, pubVars, gpsdCalls, hb, diag, exit, sig, hcEnv>>

HealthNext == health_main

SpecHealth == HealthInit /\ [][HealthNext]_vars

\* ------------------------------------------- the resolver on its own

\* The lines a gpsd stream is made of.
GpsdLines ==
    { BlankLine, BadJsonLine, NonObjectLine, VersionLine,
      Tpv(<<1>>, <<40>>, <<-74>>, <<10>>),
      Tpv(<<2>>, Absent, <<-74>>, <<10>>),
      Tpv(<<2>>, <<0>>, <<-30>>, <<7>>),
      Tpv(<<3>>, <<40>>, <<-74>>, Absent),
      Tpv(<<3>>, <<40>>, <<-74>>, <<10>>) }

\* The streams of at most MaxLines lines.
GpsdStreams == UNION { [1..n -> GpsdLines] : n \in 0..MaxLines }

\* gpsd is configured and answers; what it sends is any stream.
GpsdInit ==
    /\ MQTT_HOST = "broker" /\ GPSD_HOST = "gpsd" /\ _tz_finder = FALSE
    /\ gpsdLines \in GpsdStreams
    /\ InitProcess
    /\ now = Secs(StartTime)
    /\ hb = HbMissing
    /\ hcEnv = NoHealthEnv
    /\ hc = NoHealth

\* One call of get_fix_from_gpsd on the stream.
gpsd_call ==
    /\ gpsdCalls = 0
    /\ fix' = get_fix_from_gpsd(GPSD_HOST, [conn |-> TRUE, lines |-> gpsdLines])
    /\ gpsdCalls' = 1
    /\ UNCHANGED <<envVars, pc, now, start, cycle, lat, lon, alt, tz, loc,
                   last_gpsd_check, _connected, net, checked, sample, dataSent,
                   pubVars, hb, diag, exit, sig, hcVars>>

GpsdNext == gpsd_call

SpecGpsd == GpsdInit /\ [][GpsdNext]_vars

\* ------------------------------------------------------------- claims

\* C1: in an iteration whose check of the connection flag read false, no
\* irradiance message is handed to the client and no sample is computed or
\* kept; every sample in publish_data was computed in the current iteration
\* at the current time, after the flag was read true, so the sample of a
\* skipped iteration is never sent later.
C1_SkippedCyclePublishesNothing ==
    /\ checked = "disconnected" =>
           /\ dataSent = 0
           /\ sample = NoSample
           /\ pc \in {"sleep", "exited"}
    /\ dataSent > 0 => checked = "connected"
    /\ sample # NoSample =>
           /\ checked = "connected"
           /\ sample.cycle = cycle
           /\ sample.ts = now

\* C1 witness: an iteration is skipped after an earlier one has published.
C1_Witness ==
    /\ pc = "sleep"
    /\ checked = "disconnected"
    /\ hb.exists
    /\ cycle >= 2

\* C2: the "online" messages and the discovery descriptors handed to the
\* client are as many as the on_connect calls with rc == 0, and wherever one
\* of them is published it is as the pair "online", then discovery, both
\* retained.
C2_OnlineAndDiscoveryOncePerConnect ==
    /\ nOnline = nConnOk
    /\ nDiscovery = nConnOk
    /\ (\E i \in DOMAIN lastPub : lastPub[i].payload \in {"online", "discovery"}) =>
           /\ lastPub = <<OnlineMsg, DiscoveryMsg>>
           /\ \A i \in DOMAIN lastPub : lastPub[i].retain

\* C2 witness: a reconnect after a disconnect has announced itself again.
C2_Witness ==
    /\ nConnOk = 2
    /\ nOnline = 2
    /\ nDiscovery = 2
    /\ lastPub = <<OnlineMsg, DiscoveryMsg>>

\* C3 as stated: whenever the loop is about to sleep, the heartbeat file
\* holds the current time, whether the sample was published or skipped.
C3_HeartbeatEveryCycle ==
    pc = "sleep" => hb = StrOfTime(now)

\* C3 as amended: when the loop is about to sleep, the heartbeat file holds
\* the current time exactly if this iteration published its sample; a
\* skipped iteration does not write it.
C3_HeartbeatOnlyWhenPublished ==
    pc = "sleep" => (hb = StrOfTime(now) <=> checked = "connected")

\* C3 witness: a published iteration, after the first, is about to sleep.
C3_Witness ==
    /\ pc = "sleep"
    /\ checked = "connected"
    /\ dataSent = 1
    /\ cycle >= 2

\* C4: every input of a sample (the coordinates of the solar position, of
\* the turbidity lookup and of the clear-sky model, and the timezone) is
\* that of the one active location.
C4_SampleFromOneResolution ==
    sample # NoSample =>
        /\ sample.lat = loc.latitude
        /\ sample.lon = loc.longitude
        /\ sample.alt = loc.altitude
        /\ sample.tz = loc.tz
        /\ sample.turbidityLat = loc.latitude
        /\ sample.turbidityLon = loc.longitude
        /\ sample.clearskyAlt = loc.altitude

\* C5: a health-check run over a missing heartbeat file, one whose text is
\* no number, or one older than the maximum age exits non-zero with one
\* line on stderr and without probing the broker; an empty file counts as
\* time 0 and fails as stale.
C5_HealthFailsOnBadHeartbeat ==
    hc.ran =>
        /\ (\/ ~hb.exists
            \/ hb.kind \in {"garbage", "unreadable"}
            \/ hb.kind = "num" /\ now - hb.val > HEALTH_MAX_AGE_SECONDS * TicksPerSecond
            \/ hb.kind = "empty")
           => /\ hc.exit # 0
              /\ Len(hc.stderr) = 1
              /\ ~hc.probed
        /\ (hb.exists /\ hb.kind = "empty") => hc.stderr = <<"stale heartbeat">>

\* C5 witness: the health-check has failed on an empty heartbeat file.
C5_Witness ==
    /\ hc.ran
    /\ hb.exists
    /\ hb.kind = "empty"
    /\ hc.exit = 1

\* The heartbeat is present, numeric (an empty or blank text counting as
\* 0) and no older than the maximum age.
AgeCheckPasses ==
    /\ hb.exists
    /\ hb.kind \in {"empty", "blank", "num"}
    /\ now - (IF hb.kind = "num" THEN hb.val ELSE 0)
           <= HEALTH_MAX_AGE_SECONDS * TicksPerSecond

\* C6 as stated: exit status 0 implies that the age check passed and, with
\* the probe toggle enabled, that a TCP connection to the broker was made.
C6_ZeroExitImpliesReachable ==
    (hc.ran /\ hc.exit = 0) =>
        /\ AgeCheckPasses
        /\ hcEnv.tcp = "1" => hc.established

\* C6 as amended: exit status 0 implies that the age check passed and, with
\* the probe toggle enabled and a broker host configured, that a TCP
\* connection to the broker was made.
C6_ZeroExitImpliesReachableIfHost ==
    (hc.ran /\ hc.exit = 0) =>
        /\ AgeCheckPasses
        /\ (hcEnv.tcp = "1" /\ hcEnv.host # "") => hc.established

\* C6 witness: the health-check exits 0 after a successful probe.
C6_Witness ==
    /\ hc.ran
    /\ hc.exit = 0
    /\ hcEnv.tcp = "1"
    /\ hcEnv.host # ""
    /\ hc.established

\* The number of a signal.
SignalNumber(s) == IF s = "SIGINT" THEN SIGINT ELSE 15

\* C7: once a termination signal has been delivered, the process has run
\* the shutdown handler: the network loop is stopped and the process has
\* exited with the signal's number as its status.
C7_SignalShutsDownGracefully ==
    sig # "none" =>
        /\ pc = "exited"
        /\ net = "stopped"
        /\ exit = [how |-> "exit", code |-> SignalNumber(sig)]

\* C8: with no broker host configured and no signal delivered, the process
\* never leaves start-up other than by exiting with a non-zero status and an
\* error line; the resolver is not called, the network thread is not
\* started, nothing is handed to the client and the heartbeat file is not
\* written.
C8_MissingHostIsFatal ==
    (MQTT_HOST = "" /\ sig = "none") =>
        /\ pc \in {"start", "exited"}
        /\ gpsdCalls = 0
        /\ net = "idle"
        /\ lastPub = <<>>
        /\ dataSent = 0
        /\ hb = HbMissing
        /\ pc = "exited" => /\ exit.how = "exit"
                            /\ exit.code # 0
                            /\ diag # ""

\* C8 witness: the process has exited on the empty broker host.
C8_Witness ==
    /\ MQTT_HOST = ""
    /\ sig = "none"
    /\ pc = "exited"
    /\ exit = [how |-> "exit", code |-> 2]
    /\ diag = "MQTT_HOST is empty"

\* C9: with no gpsd host configured, the active coordinates and timezone,
\* and the Location once built, are the configured ones in every state, and
\* the resolver is never called.
C9_StaticLocationWithoutGpsd ==
    GPSD_HOST = "" =>
        /\ lat = LATITUDE /\ lon = LONGITUDE /\ alt = ALTITUDE /\ tz = TZ
        /\ loc # NoLoc => /\ loc.latitude = LATITUDE
                          /\ loc.longitude = LONGITUDE
                          /\ loc.altitude = ALTITUDE
                          /\ loc.tz = TZ
        /\ fix = NoFix
        /\ gpsdCalls = 0

\* C9 witness: without gpsd, the loop has run past a refresh interval and
\* is publishing.
C9_Witness ==
    /\ GPSD_HOST = ""
    /\ pc = "heartbeat"
    /\ now - Secs(StartTime) >= Secs(GPSD_REFRESH_S)
    /\ loc = Location(LATITUDE, LONGITUDE, TZ, ALTITUDE, "Home")

\* C10: after a fix, the active timezone is the one resolved from the fix's
\* coordinates, or the configured timezone if that resolution fails.
C10_TimezoneFollowsFix ==
    fix # NoFix =>
        tz = IF lookup_timezone(_tz_finder, fix[1], fix[2]) # None
             THEN lookup_timezone(_tz_finder, fix[1], fix[2])
             ELSE TZ

\* ---------------------------------------------------------------------- C11
\* C11: get_fix_from_gpsd never raises: a connection that fails, a stream
\* that ends or times out without a fix and a malformed line all give the
\* no-result.  While the only call made is the one of startup and it gave
\* the no-result, the coordinates and the timezone are the configured ones.
\* A call that gives the no-result leaves the active coordinates, timezone
\* and Location as they were, and the main thread goes on to its next step.
C11_NoResultChangesNothing ==
    /\ [](fix # Raised)
    /\ []((gpsdCalls = 1 /\ fix = NoFix) =>
            (lat = LATITUDE /\ lon = LONGITUDE /\ alt = ALTITUDE /\ tz = TZ))
    /\ [][(gpsdCalls' = gpsdCalls + 1 /\ fix' = NoFix) =>
            (/\ UNCHANGED <<lat, lon, alt, tz, loc>>
             /\ pc' = IF pc = "gpsd_init" THEN "connect" ELSE "check"
             /\ exit' = NoExit)]_vars

\* A refresh gave the no-result after the startup call had given a fix, and
\* the fix is still the active location.
C11_Witness ==
    /\ pc = "check"
    /\ gpsdCalls = 2
    /\ fix = NoFix
    /\ last_gpsd_check = now
    /\ lat = 40 /\ lon = -74 /\ alt = 10
    /\ loc.latitude = 40

\* ---------------------------------------------------------------------- C12
\* C12: a failure of the irradiance computation does not end the process:
\* an iteration that entered publish_data (the flag was read true) never
\* leaves the process exited through the "fatal error" path of __main__.
C12_ComputeFailureIsNotFatal ==
    ~(pc = "exited" /\ checked = "connected" /\ sig = "none"
      /\ diag = "fatal error" /\ exit = [how |-> "exit", code |-> 1])

\* ---------------------------------------------------------------------- C13
\* C13: the publisher hands "offline" to the client at most once, and only
\* from the shutdown handler: while the process runs, through every
\* disconnect and reconnect, no "offline" has been published; a published
\* "offline" means SIGINT was handled and the process has exited.
C13_OfflineOnlyFromHandler ==
    /\ nOffline <= 1
    /\ Alive => nOffline = 0
    /\ nOffline = 1 => (sig = "SIGINT" /\ pc = "exited" /\ lastPub = <<OfflineMsg>>)

\* The connection was lost and made again, then SIGINT published "offline".
C13_Witness ==
    /\ nConnOk = 2
    /\ nOffline = 1
    /\ sig = "SIGINT"
    /\ cycle >= 1

\* ---------------------------------------------------------------------- C14
\* C14: whenever an irradiance message is handed to the client (the step
\* of line 222), the connection flag is true at that moment.
C14_FlagTrueAtPublish ==
    [][(pc = "publish" /\ pc' = "heartbeat") => _connected]_vars

\* ---------------------------------------------------------------------- C15
\* C15: the connection flag is written by the broker callbacks only.  It
\* is false until the first callback; while the process runs it is true
\* exactly when the last callback that changed it was an on_connect with
\* rc == 0 (the network thread is "up"); a refused connection leaves it as
\* it was and publishes nothing; every disconnect callback makes it false;
\* no step of the main thread and no signal changes it.
C15_FlagFollowsCallbacks ==
    /\ [](net = "idle" => ~_connected)
    /\ [](Alive => (_connected <=> net = "up"))
    /\ [][(net # "refused" /\ net' = "refused") =>
            (_connected' = _connected /\ UNCHANGED pubVars)]_vars
    /\ [][(net \in {"up", "refused"} /\ net' = "connecting") => ~_connected']_vars
    /\ [][(_connected' # _connected) =>
            (/\ UNCHANGED <<pc, now, cycle, locVars, gpsdCalls, sig, exit>>
             /\ net' # net
             /\ net' = "up" \/ net = "up")]_vars

\* The flag has gone true, false and true again, and a connection was
\* refused in between, while the main loop was running.
C15_Witness ==
    /\ _connected
    /\ nConnOk = 2
    /\ net = "up"
    /\ pc = "check"
    /\ cycle >= 2

\* ---------------------------------------------------------------------- C16
\* C16: the loop does not get stuck skipping: after iterations that were
\* all skipped (no heartbeat exists yet), an iteration that reads the flag
\* true, with the flag true ever since and no signal delivered, is inside
\* publish_data or has handed its irradiance sample to the client.
C16_PublishesAfterSkips ==
    (cycle >= 2 /\ hb = HbMissing /\ checked = "connected" /\ _connected
     /\ nConnOk = 1 /\ sig = "none")
    => (/\ pc \in {"compute", "publish", "heartbeat"}
        /\ dataSent = IF pc = "heartbeat" THEN 1 ELSE 0)

\* ---------------------------------------------------------------------- C17
\* C17: the wait for the first connection ends.  It never lasts longer
\* than CONNECT_WAIT_S; once the flag is true or the time is up the main
\* thread cannot poll again and its only step is the entry into the loop;
\* a loop entered with no connection ever made was entered when the time
\* was up, and its iterations skip publishing.
C17_StartupWaitEnds ==
    /\ pc = "wait" =>
         /\ now - start <= Secs(CONNECT_WAIT_S)
         /\ ENABLED main_wait \/ ENABLED main_enter_loop
         /\ (_connected \/ now - start >= Secs(CONNECT_WAIT_S))
              => (ENABLED main_enter_loop /\ ~ENABLED main_wait)
    /\ (cycle = 1 /\ nConnOk = 0) => now - start = Secs(CONNECT_WAIT_S)
    /\ (cycle >= 1 /\ nConnOk = 0 /\ checked # "none") =>
         (checked = "disconnected" /\ dataSent = 0 /\ pc \in {"sleep", "exited"})

\* The broker never connected: the loop was entered after the full wait
\* and its first iteration was skipped.
C17_Witness ==
    /\ pc = "sleep"
    /\ cycle = 1
    /\ nConnOk = 0
    /\ checked = "disconnected"
    /\ now - start = Secs(CONNECT_WAIT_S)

\* ---------------------------------------------------------------------- C18
\* C18: the main loop calls the resolver only when a gpsd host is
\* configured and at least GPSD_REFRESH_S have passed since the previous
\* call, the one of startup included; every call, whatever it returns,
\* sets last_gpsd_check to the current time.  Hence n calls need at least
\* n - 1 refresh intervals of running time: not one call per iteration.
C18_RefreshOnlyWhenDue ==
    /\ [][(gpsdCalls' # gpsdCalls) =>
            (/\ gpsdCalls' = gpsdCalls + 1
             /\ GPSD_HOST # ""
             /\ last_gpsd_check' = now
             /\ pc = "refresh" => now - last_gpsd_check >= Secs(GPSD_REFRESH_S))]_vars
    /\ [](gpsdCalls >= 1 =>
            (/\ last_gpsd_check <= now
             /\ (gpsdCalls - 1) * Secs(GPSD_REFRESH_S) <= last_gpsd_check - Secs(StartTime)))
    /\ []((cycle >= 1 /\ GPSD_HOST # "") => gpsdCalls >= 1)

\* A refresh was attempted one interval after startup and failed; the time
\* of the last attempt is the time of that failure.
C18_Witness ==
    /\ pc = "check"
    /\ gpsdCalls = 2
    /\ fix = NoFix
    /\ last_gpsd_check = now
    /\ now - Secs(StartTime) >= Secs(GPSD_REFRESH_S)
    /\ cycle > 1

\* ---------------------------------------------------------------------- C19
\* The lines of a stream that are TPV reports with mode >= 2 and both
\* latitude and longitude.
FixRecords(lines) ==
    {i \in DOMAIN lines :
        /\ lines[i].kind = "object"
        /\ lines[i].class = "TPV"
        /\ lines[i].mode # Absent /\ lines[i].mode[1] >= 2
        /\ lines[i].lat # Absent
        /\ lines[i].lon # Absent}

\* The coordinates of the first such line, every other line being skipped;
\* the altitude is the line's when its mode is >= 3 and it has one, else 0.
FirstFixRecord(lines) ==
    IF FixRecords(lines) = {} THEN NoFix
    ELSE LET i == CHOOSE k \in FixRecords(lines) : \A j \in FixRecords(lines) : k <= j
             r == lines[i]
         IN  <<r.lat[1], r.lon[1], IF r.mode[1] >= 3 /\ r.alt # Absent THEN r.alt[1] ELSE 0>>

\* C19: for every stream of lines received before the deadline, the
\* resolver returns the coordinates of the first line that is a TPV report
\* with mode >= 2 and both latitude and longitude, whatever lines precede
\* it, and the no-result when there is no such line.
C19_ReturnsFirstFixRecord ==
    gpsdCalls = 1 => fix = FirstFixRecord(gpsdLines)

\* ---------------------------------------------------------------------- C20
\* C20: the heartbeat file changes only in the step of publish_data that
\* follows the hand-over of this iteration's irradiance message, and it
\* then holds the current time; the callbacks, the shutdown handler,
\* startup, the refresh and a skipped iteration leave it as it was.  A
\* heartbeat that exists is the time of this or an earlier iteration of
\* the loop, and never that of an iteration that was skipped.
C20_HeartbeatOnlyAfterPublish ==
    /\ [][(hb' # hb) =>
            (/\ pc = "heartbeat" /\ pc' = "sleep"
             /\ checked = "connected"
             /\ dataSent = 1
             /\ hb' = StrOfTime(now)
             /\ UNCHANGED <<pubVars, _connected, net, sig, exit, locVars>>)]_vars
    /\ [](hb.exists =>
            (/\ hb.kind = "num"
             /\ cycle >= 1
             /\ start <= hb.val /\ hb.val <= now
             /\ (now - hb.val) % Secs(PUBLISH_INTERVAL_S) = 0))
    /\ []((pc = "sleep" /\ checked = "disconnected") => hb # StrOfTime(now))

\* A heartbeat written in an earlier iteration is still in place after a
\* disconnect and a skipped iteration.
C20_Witness ==
    /\ pc = "sleep"
    /\ checked = "disconnected"
    /\ hb.exists
    /\ hb.val < now
    /\ nConnOk >= 1

====
